---- MODULE Spec2Model ----
(***************************************************************************)
(* Model of the CREngine C shim (crates/crengine/src/shim): the document   *)
(* handle life cycle, the stub layout and the stub renderer.               *)
(*                                                                         *)
(* The caller owns one handle slot, one uint32 out_pages variable, one     *)
(* CreResult out_status variable and one surface buffer.  The buffer is    *)
(* observed at the byte offsets in Probes; every uint32 keeps its width    *)
(* (arithmetic modulo 2^32).  The caller passes either NULL or the handle  *)
(* it got from cre_open_document and has not closed yet.                   *)
(***************************************************************************)
EXTENDS Integers, FiniteSets, Sequences

\* ---- enum CreResult -------------------------------------------------------
CRE_RESULT_OK == 0
CRE_RESULT_UNSUPPORTED == 1
CRE_RESULT_INVALID_ARGUMENT == 2
CRE_RESULT_INTERNAL_ERROR == 3

\* ---- enum CreSurfaceFormat ------------------------------------------------
CRE_SURFACE_FORMAT_INVALID == 0
CRE_SURFACE_FORMAT_GRAY8 == 1
CRE_SURFACE_FORMAT_MONOCHROME == 2

\* ---- widths -----------------------------------------------------------------
\* A uint32_t or a byte offset is the pair <<hi, lo>> of 16-bit limbs, standing
\* for hi * Limb + lo: a uint32_t has hi < Limb, an offset into a buffer of more
\* than 4 GiB has a larger hi.  uint32_t arithmetic is modulo 2^32 (Wrap32);
\* a uint8_t holds 0..ByteMax.
Limb == 65536
ByteMax == 255

U(n) == <<0, n>>
Norm(hi, lo) == <<hi + (lo \div Limb), lo % Limb>>
Add(a, b) == Norm(a[1] + b[1], a[2] + b[2])
Mul(a, k) == Norm(a[1] * k, a[2] * k)
Wrap32(a) == <<a[1] % Limb, a[2]>>
Less(a, b) == a[1] < b[1] \/ (a[1] = b[1] /\ a[2] < b[2])
Sub32(a, b) ==
    IF a[2] >= b[2] THEN <<(a[1] - b[1]) % Limb, a[2] - b[2]>>
    ELSE <<(a[1] - b[1] - 1) % Limb, a[2] - b[2] + Limb>>
IsU32(a) == a[1] < Limb

Zero == U(0)
Word == <<Limb, 0>>
HalfWord == <<Limb \div 2, 0>>
MaxU32 == <<Limb - 1, Limb - 1>>

\* ---- bounds of the explored inputs -----------------------------------------
MaxHeight == 3

NULL == "NULL"
\* A pointer to a struct is the empty tuple when NULL, else <<the struct>>.
NullPtr == <<>>
\* What the model records as the result of a call that returns no CreResult.
NoResult == -1

\* Values the caller passes.
Heights == 1..MaxHeight
SmallStride == U(2)
Strides == {SmallStride, HalfWord}
Formats == {CRE_SURFACE_FORMAT_GRAY8, CRE_SURFACE_FORMAT_MONOCHROME}
PageIndexes == {Zero, U(1)}
Paths == {NULL, "book.epub"}
Fills == {165}
\* What the caller's variables hold before the shim writes them.
InitialOutPages == {MaxU32}
InitialOutStatus == {CRE_RESULT_UNSUPPORTED}

\* Byte offsets of the caller's buffer that the model observes: the first bytes
\* of the buffer, and the first and the last byte of every 2^31-byte block up to
\* one block past the largest buffer an explored surface describes (MaxHeight
\* rows of HalfWord bytes).
Probes == {U(n) : n \in 0..(MaxHeight * SmallStride[2])}
          \cup UNION {{<<h, 0>>, <<h + (Limb \div 2) - 1, Limb - 1>>} :
                      h \in {k * (Limb \div 2) : k \in 0..MaxHeight}}

\* struct CreRenderSurface, as the caller fills it in.  size.width and
\* size.height are small here, so they are kept as plain numbers and widened
\* where the code computes with them.
ValidSurfaces == [data : {"buf"}, stride : Strides,
                  size : [width : {1}, height : Heights], format : Formats]
RefSurface == [data |-> "buf", stride |-> SmallStride, size |-> [width |-> 1, height |-> 1],
               format |-> CRE_SURFACE_FORMAT_GRAY8]
\* The surfaces validate_surface refuses, one per condition it tests.
DefectSurfaces == {[RefSurface EXCEPT !.data = NULL],
                   [RefSurface EXCEPT !.stride = Zero],
                   [RefSurface EXCEPT !.size.width = 0],
                   [RefSurface EXCEPT !.size.height = 0],
                   [RefSurface EXCEPT !.format = CRE_SURFACE_FORMAT_INVALID]}
Surfaces == {NullPtr} \cup {<<r>> : r \in ValidSurfaces \cup DefectSurfaces}

\* struct CreLayoutConfig.
CreLayoutConfig == {[font_size |-> 16, line_height_percent |-> 120, page_margin_dp |-> 8],
                    [font_size |-> 0, line_height_percent |-> 0, page_margin_dp |-> 0]}
Configs == {NullPtr} \cup {<<c>> : c \in CreLayoutConfig}

VARIABLES
    doc,        \* the caller's handle: NULL, or "doc" while the CreDocument is allocated
    pages,      \* doc->pages (0 while no document is allocated)
    out_status, \* the caller's CreResult variable behind out_status
    out_pages,  \* the caller's uint32 variable behind out_pages
    mem,        \* the caller's buffer behind surface->data, at Probes
    written,    \* the Probes the last call stored to
    call,       \* the last call and its arguments
    ret,        \* what the last call returned
    laid_out,   \* history: a cre_layout_document has succeeded on the open document
    first       \* history: NullPtr, or <<an earlier successful render and its output>>

vars == <<doc, pages, out_status, out_pages, mem, written, call, ret, laid_out, first>>

\* ---- pure helpers ------------------------------------------------------------

\* validate_surface as it would be without its test of surface->format.
validate_surface_any_format(surface) ==
    IF surface = NullPtr THEN CRE_RESULT_INVALID_ARGUMENT
    ELSE IF surface[1].data = NULL \/ surface[1].stride = Zero
         THEN CRE_RESULT_INVALID_ARGUMENT
    ELSE IF surface[1].size.width = 0 \/ surface[1].size.height = 0
         THEN CRE_RESULT_INVALID_ARGUMENT
    ELSE CRE_RESULT_OK

\* static CreResult validate_surface(const CreRenderSurface *surface)
validate_surface(surface) ==
    IF surface = NullPtr THEN CRE_RESULT_INVALID_ARGUMENT
    ELSE IF surface[1].data = NULL \/ surface[1].stride = Zero
         THEN CRE_RESULT_INVALID_ARGUMENT
    ELSE IF surface[1].size.width = 0 \/ surface[1].size.height = 0
         THEN CRE_RESULT_INVALID_ARGUMENT
    ELSE IF surface[1].format = CRE_SURFACE_FORMAT_INVALID
         THEN CRE_RESULT_INVALID_ARGUMENT
    ELSE CRE_RESULT_OK

\* uint8_t value = (uint8_t)((page_index + y) & 0xFF), the sum taken in uint32.
RowValue(page_index, y) == Wrap32(Add(page_index, U(y)))[2] % (ByteMax + 1)

\* RowWrites as it would be if the inner loop ran while x <= stride.
RowWrites_inclusive(stride, y, o) ==
    /\ IsU32(o)
    /\ ~Less(stride, Sub32(o, Wrap32(Mul(stride, y))))

\* The inner loop of row y stores to data[y * stride + x] for x = 0..stride-1,
\* the index computed in uint32: offset o is stored to by row y exactly when
\* some x < stride has (y * stride + x) mod Word = o.
RowWrites(stride, y, o) ==
    /\ IsU32(o)
    /\ Less(Sub32(o, Wrap32(Mul(stride, y))), stride)

\* The outer loop from row y on, applied to buffer m.
RECURSIVE RenderRows(_, _, _, _, _)
RenderRows(m, page_index, rows, stride, y) ==
    IF y >= rows THEN m
    ELSE RenderRows([o \in Probes |->
                        IF RowWrites(stride, y, o) THEN RowValue(page_index, y) ELSE m[o]],
                    page_index, rows, stride, y + 1)

\* The offsets the two loops store to.
RenderWrites(rows, stride) ==
    {o \in Probes : \E y \in 0..(rows - 1) : RowWrites(stride, y, o)}

\* ---- initial state -----------------------------------------------------------

Init ==
    /\ doc = NULL
    /\ pages = Zero
    /\ out_status \in InitialOutStatus
    /\ out_pages \in InitialOutPages
    /\ \E f \in Fills : mem = [o \in Probes |-> f]
    /\ written = {}
    /\ call = [op |-> "none"]
    /\ ret = NoResult
    /\ laid_out = FALSE
    /\ first = NullPtr

\* ---- operations ----------------------------------------------------------------

\* CreDocument *cre_open_document(const char *path, CreResult *out_status)
\* The caller opens a document only into an empty handle slot.  malloc may fail.
cre_open_document ==
    /\ doc = NULL
    /\ \E path \in Paths, has_out \in BOOLEAN, malloc_ok \in BOOLEAN :
          LET status == IF path = NULL THEN CRE_RESULT_INVALID_ARGUMENT
                        ELSE IF ~malloc_ok THEN CRE_RESULT_INTERNAL_ERROR
                        ELSE CRE_RESULT_OK
          IN /\ doc' = IF status = CRE_RESULT_OK THEN "doc" ELSE NULL
             /\ pages' = Zero
             /\ out_status' = IF has_out THEN status ELSE out_status
             /\ call' = [op |-> "open", path |-> path, has_out |-> has_out]
             /\ ret' = NoResult
    /\ laid_out' = FALSE
    /\ written' = {}
    /\ UNCHANGED <<out_pages, mem>>

\* void cre_close_document(CreDocument *doc)
cre_close_document ==
    /\ \E d \in {NULL, doc} :
          /\ doc' = IF d = NULL THEN doc ELSE NULL
          /\ pages' = IF d = NULL THEN pages ELSE Zero
          /\ call' = [op |-> "close", doc |-> d]
          /\ laid_out' = IF d = NULL THEN laid_out ELSE FALSE
    /\ ret' = NoResult
    /\ written' = {}
    /\ UNCHANGED <<out_status, out_pages, mem>>

\* CreResult cre_page_count(const CreDocument *doc, uint32_t *out_pages)
cre_page_count ==
    /\ \E d \in {NULL, doc}, has_out \in BOOLEAN :
          /\ call' = [op |-> "page_count", doc |-> d, has_out |-> has_out]
          /\ IF d = NULL \/ ~has_out
             THEN /\ ret' = CRE_RESULT_INVALID_ARGUMENT
                  /\ out_pages' = out_pages
             ELSE /\ ret' = CRE_RESULT_OK
                  /\ out_pages' = pages
    /\ written' = {}
    /\ UNCHANGED <<doc, pages, out_status, mem, laid_out>>

\* cre_layout_document as it would be if it cleared the page count before it
\* looked at config.
cre_layout_document_clears ==
    /\ \E d \in {NULL, doc}, config \in Configs :
          /\ call' = [op |-> "layout", doc |-> d, config |-> config]
          /\ IF d = NULL
             THEN /\ ret' = CRE_RESULT_INVALID_ARGUMENT
                  /\ pages' = pages
                  /\ laid_out' = laid_out
             ELSE IF config = NullPtr
             THEN /\ ret' = CRE_RESULT_INVALID_ARGUMENT
                  /\ pages' = Zero
                  /\ laid_out' = laid_out
             ELSE /\ ret' = CRE_RESULT_OK
                  /\ pages' = U(1)
                  /\ laid_out' = TRUE
    /\ written' = {}
    /\ UNCHANGED <<doc, out_status, out_pages, mem>>

\* CreResult cre_layout_document(CreDocument *doc, const CreLayoutConfig *config)
cre_layout_document ==
    /\ \E d \in {NULL, doc}, config \in Configs :
          /\ call' = [op |-> "layout", doc |-> d, config |-> config]
          /\ IF d = NULL \/ config = NullPtr
             THEN /\ ret' = CRE_RESULT_INVALID_ARGUMENT
                  /\ pages' = pages
                  /\ laid_out' = laid_out
             ELSE /\ ret' = CRE_RESULT_OK
                  /\ pages' = U(1)
                  /\ laid_out' = TRUE
    /\ written' = {}
    /\ UNCHANGED <<doc, out_status, out_pages, mem>>

\* CreResult cre_render_page(const CreDocument *doc, uint32_t page_index,
\*                           CreRenderSurface *surface)
cre_render_page_on(d, page_index, surface) ==
    /\ call' = [op |-> "render", doc |-> d, page_index |-> page_index,
                surface |-> surface]
    /\ IF d = NULL
       THEN ret' = CRE_RESULT_INVALID_ARGUMENT /\ mem' = mem /\ written' = {}
       ELSE IF ~Less(page_index, pages)
       THEN ret' = CRE_RESULT_INVALID_ARGUMENT /\ mem' = mem /\ written' = {}
       ELSE IF validate_surface(surface) # CRE_RESULT_OK
       THEN ret' = validate_surface(surface) /\ mem' = mem /\ written' = {}
       ELSE /\ mem' = RenderRows(mem, page_index, surface[1].size.height,
                                 surface[1].stride, 0)
            /\ written' = RenderWrites(surface[1].size.height, surface[1].stride)
            /\ ret' = CRE_RESULT_OK
    /\ UNCHANGED <<doc, pages, out_status, out_pages, laid_out>>

cre_render_page ==
    \E d \in {NULL, doc}, page_index \in PageIndexes, surface \in Surfaces :
        cre_render_page_on(d, page_index, surface)

Next ==
    \/ cre_open_document /\ UNCHANGED first
    \/ cre_close_document /\ UNCHANGED first
    \/ cre_page_count /\ UNCHANGED first
    \/ cre_layout_document /\ UNCHANGED first
    \/ cre_render_page /\ UNCHANGED first

Spec == Init /\ [][Next]_vars

\* ---- two renders compared -----------------------------------------------------------

\* What the caller puts into its buffer between two calls.
CallerFills == {0}

\* The caller overwrites its buffer: surface->data is the caller's memory.
caller_fill ==
    /\ \E f \in CallerFills :
          /\ mem' = [o \in Probes |-> f]
          /\ call' = [op |-> "fill", value |-> f]
    /\ ret' = NoResult
    /\ written' = {}
    /\ UNCHANGED <<doc, pages, out_status, out_pages, laid_out>>

\* The observed bytes of a buffer of rows rows of stride bytes.
BufferOf(m, rows, stride) ==
    [o \in {q \in Probes : Less(q, Mul(stride, rows))} |-> m[o]]

\* cre_render_page on a valid surface; the history keeps the first successful
\* render it chooses to keep, with the buffer that render left.
render_and_record ==
    /\ \E page_index \in PageIndexes, r \in ValidSurfaces :
          cre_render_page_on(doc, page_index, <<r>>)
    /\ \/ first' = first
       \/ /\ first = NullPtr
          /\ ret' = CRE_RESULT_OK
          /\ first' = <<[page_index |-> call'.page_index,
                         height |-> call'.surface[1].size.height,
                         stride |-> call'.surface[1].stride,
                         bytes |-> BufferOf(mem', call'.surface[1].size.height,
                                            call'.surface[1].stride)]>>

NextPair ==
    \/ cre_open_document /\ UNCHANGED first
    \/ cre_close_document /\ UNCHANGED first
    \/ cre_layout_document /\ UNCHANGED first
    \/ caller_fill /\ UNCHANGED first
    \/ render_and_record

SpecPair == Init /\ [][NextPair]_vars

\* ---- sanity of the model's own typing ------------------------------------------

TypeOK ==
    /\ doc \in {NULL, "doc"}
    /\ IsU32(pages)
    /\ out_status \in {CRE_RESULT_OK, CRE_RESULT_UNSUPPORTED, CRE_RESULT_INVALID_ARGUMENT,
                       CRE_RESULT_INTERNAL_ERROR}
    /\ IsU32(out_pages)
    /\ mem \in [Probes -> 0..ByteMax]
    /\ written \subseteq Probes
    /\ ret \in {NoResult, CRE_RESULT_OK, CRE_RESULT_INVALID_ARGUMENT}
    /\ laid_out \in BOOLEAN
    /\ Len(first) <= 1

\* ---- cre_page_count ------------------------------------------------------------

\* C11: cre_page_count with a live doc and a non-NULL out_pages returns
\* CRE_RESULT_OK and writes 0 when no cre_layout_document has succeeded since
\* cre_open_document and otherwise the count the last successful layout set (1,
\* whatever the config); with a NULL doc or a NULL out_pages it returns
\* CRE_RESULT_INVALID_ARGUMENT and leaves the caller's variable alone; a failing
\* layout, cre_page_count and cre_render_page never change the count.
PageCountReportsLastLayout ==
    [][/\ (call'.op = "page_count" /\ call'.doc # NULL /\ call'.has_out)
            => (ret' = CRE_RESULT_OK /\ out_pages' = IF laid_out THEN U(1) ELSE Zero)
       /\ (call'.op = "page_count" /\ (call'.doc = NULL \/ ~call'.has_out))
            => (ret' = CRE_RESULT_INVALID_ARGUMENT /\ out_pages' = out_pages)
       /\ (call'.op \in {"page_count", "render"}
             \/ (call'.op = "layout" /\ ret' # CRE_RESULT_OK))
            => pages' = pages]_vars

\* A page count read from a document that has been laid out.
PageCountAfterLayout ==
    /\ call.op = "page_count"
    /\ ret = CRE_RESULT_OK
    /\ laid_out
    /\ out_pages = U(1)

\* ---- cre_render_page: refused calls ----------------------------------------------

\* The arguments C12 lists, for a render call c on a document of pg pages.
BadRenderArguments(c, pg) ==
    \/ c.doc = NULL
    \/ ~Less(c.page_index, pg)
    \/ c.surface = NullPtr
    \/ c.surface[1].data = NULL
    \/ c.surface[1].stride = Zero
    \/ c.surface[1].size.width = 0
    \/ c.surface[1].size.height = 0
    \/ c.surface[1].format = CRE_SURFACE_FORMAT_INVALID

\* C12: cre_render_page returns CRE_RESULT_INVALID_ARGUMENT and stores no byte
\* to the caller's buffer whenever doc is NULL, page_index >= the page count,
\* surface or surface->data is NULL, stride, width or height is 0, or format is
\* CRE_SURFACE_FORMAT_INVALID; every render on a document that has not been laid
\* out fails; and a render that returns CRE_RESULT_OK has page_index < page count.
RenderRejectsBadArguments ==
    [][call'.op = "render" =>
         /\ BadRenderArguments(call', pages)
              => (ret' = CRE_RESULT_INVALID_ARGUMENT /\ written' = {} /\ mem' = mem)
         /\ ~laid_out => ret' = CRE_RESULT_INVALID_ARGUMENT
         /\ ret' = CRE_RESULT_OK => Less(call'.page_index, pages)]_vars

\* A render of page 0 of a laid-out document refused for its surface format alone.
RenderRefusedForFormat ==
    /\ call.op = "render"
    /\ call.doc # NULL
    /\ laid_out
    /\ call.page_index = Zero
    /\ call.surface # NullPtr
    /\ call.surface[1].format = CRE_SURFACE_FORMAT_INVALID
    /\ ret = CRE_RESULT_INVALID_ARGUMENT
    /\ written = {}

\* ---- cre_render_page: the stores of a successful call ----------------------------

\* C13: a successful cre_render_page stores only to byte offsets in
\* [0, size.height * stride) of surface->data, the product taken without
\* wrap-around, also when the 32-bit product y * stride wraps.
RenderStaysInsideBuffer ==
    (call.op = "render" /\ ret = CRE_RESULT_OK)
        => \A o \in written :
              Less(o, Mul(call.surface[1].stride, call.surface[1].size.height))

\* A successful render into a buffer of more than 2^32 bytes, where y * stride
\* wraps for the last row.
RenderWithWrappingProduct ==
    /\ call.op = "render"
    /\ ret = CRE_RESULT_OK
    /\ ~IsU32(Mul(call.surface[1].stride, call.surface[1].size.height))
    /\ written # {}

\* C14: after a successful cre_render_page every row holds its own constant:
\* for every y < size.height and x < stride the byte at the offset y * stride + x,
\* taken without wrap-around, equals (page_index + y) mod 256.
RenderFillsEveryRow ==
    (call.op = "render" /\ ret = CRE_RESULT_OK)
        => \A o \in Probes : \A y \in 0..(call.surface[1].size.height - 1) :
              (/\ ~Less(o, Mul(call.surface[1].stride, y))
               /\ Less(o, Mul(call.surface[1].stride, y + 1)))
                  => mem[o] = (call.page_index[2] + y) % (ByteMax + 1)

\* C15: two successful cre_render_page calls with equal page_index,
\* size.height and stride leave byte-identical buffers (size.height rows of
\* stride bytes), whatever the document's history, the surface format and the
\* buffer's previous contents.
RenderIsDeterministic ==
    (/\ call.op = "render"
     /\ ret = CRE_RESULT_OK
     /\ first # NullPtr
     /\ first[1].page_index = call.page_index
     /\ first[1].height = call.surface[1].size.height
     /\ first[1].stride = call.surface[1].stride)
        => first[1].bytes = BufferOf(mem, call.surface[1].size.height,
                                     call.surface[1].stride)

====
